---------------------------- MODULE Spec2Model ----------------------------
(***************************************************************************)
(* Live market data dashboard (frontend core).                             *)
(*                                                                         *)
(*   App.js            connection state tracker: socket lifecycle          *)
(*                     handlers, manual reconnect, fallback fetch          *)
(*   ConnectionStatus  message / retry button derived from the flags       *)
(*   MarketDataTable   snapshot reconciliation (useEffect on marketData):  *)
(*                     per-field change flags and directions, change,      *)
(*                     change_percent, trading signal                      *)
(*                                                                         *)
(* JavaScript values are modelled explicitly (numbers with NaN and the     *)
(* infinities, null, undefined, strings as sequences of character codes),  *)
(* because the reconciliation code applies ===, >, -, /, typeof and || to  *)
(* raw payload fields.  Numbers are exact rationals n/d: the model does    *)
(* not round as IEEE doubles do.                                           *)
(***************************************************************************)
EXTENDS Integers, Sequences, FiniteSets, TLC

VARIABLES
    marketData,             \* App state: latest accepted snapshot (raw)
    isConnected,            \* App state
    lastUpdate,             \* App state: 0 = null, else the time of the update
    showConnectionModal,    \* App state
    isAttemptingReconnect,  \* App state
    serverIssueDetected,    \* App state
    socket,                 \* module-level socket: [exists, connected, active, listening]
    fetches,                \* number of fallback fetches in flight
    lifecycle,              \* "initial" (first render), "mounted", "unmounted"
    dataWithDefaults,       \* MarketDataTable state: reconciled mapping
    prevDataRef,            \* MarketDataTable ref: comparison baseline
    raised,                 \* an exception escaped the reconcile effect
    filterSignal,           \* MarketDataTable state: 'all', 'BUY', 'SELL', 'HOLD'
    searchTerm,             \* MarketDataTable state: the text of the search box
    hist                    \* history of the events handled since mount

vars == <<marketData, isConnected, lastUpdate, showConnectionModal,
          isAttemptingReconnect, serverIssueDetected, socket, fetches, lifecycle,
          dataWithDefaults, prevDataRef, raised, filterSignal, searchTerm, hist>>

appFlags == <<isConnected, showConnectionModal, isAttemptingReconnect,
              serverIssueDetected>>

tableVars == <<dataWithDefaults, prevDataRef, raised, filterSignal, searchTerm>>

-----------------------------------------------------------------------------
(* Bounds of the model *)

\* events remembered in hist before it saturates
MaxHist == 3
\* distinct times lastUpdate can hold (at least 2)
MaxClock == 2
\* fallback fetches that may be in flight together
MaxFetches == 1

-----------------------------------------------------------------------------
(* JavaScript values *)

\* a finite number n/d, d > 0
Rat(n, d) == [t |-> "number", k |-> "fin", n |-> n, d |-> d, s |-> <<>>]
Num(n) == Rat(n, 1)
NaN == [t |-> "number", k |-> "nan", n |-> 0, d |-> 1, s |-> <<>>]
PosInf == [t |-> "number", k |-> "inf", n |-> 0, d |-> 1, s |-> <<>>]
NegInf == [t |-> "number", k |-> "ninf", n |-> 0, d |-> 1, s |-> <<>>]
Null == [t |-> "object", k |-> "null", n |-> 0, d |-> 1, s |-> <<>>]
Undefined == [t |-> "undefined", k |-> "undefined", n |-> 0, d |-> 1, s |-> <<>>]
\* a string, as its sequence of character codes
Str(codes) == [t |-> "string", k |-> "str", n |-> 0, d |-> 1, s |-> codes]

TypeOf(v) == v.t

IsDigit(c) == c >= 48 /\ c <= 57

RECURSIVE DigitsValue(_)
DigitsValue(codes) ==
    IF codes = <<>> THEN 0
    ELSE 10 * DigitsValue(SubSeq(codes, 1, Len(codes) - 1))
         + (codes[Len(codes)] - 48)

\* StringToNumber on the strings of the model: "" is 0, a string of decimal
\* digits is its value, anything else is NaN
StringToNumber(codes) ==
    IF \A i \in 1..Len(codes) : IsDigit(codes[i])
    THEN Num(DigitsValue(codes))
    ELSE NaN

\* ToNumber: undefined -> NaN, null -> +0, string -> StringToNumber
ToNumber(v) ==
    CASE v.t = "number" -> v
      [] v.t = "undefined" -> NaN
      [] v.t = "object" -> Num(0)
      [] v.t = "string" -> StringToNumber(v.s)

\* x - y on numbers (the operands here are never infinite)
NumSub(x, y) ==
    IF x.k = "nan" \/ y.k = "nan" THEN NaN
    ELSE Rat(x.n * y.d - y.n * x.d, x.d * y.d)

\* x / y on numbers: 0/0 is NaN, n/0 is +-Infinity (the zero of a payload is +0)
NumDiv(x, y) ==
    IF x.k = "nan" \/ y.k = "nan" THEN NaN
    ELSE IF y.n = 0
         THEN (IF x.n = 0 THEN NaN ELSE IF x.n > 0 THEN PosInf ELSE NegInf)
         ELSE IF y.n > 0 THEN Rat(x.n * y.d, x.d * y.n)
              ELSE Rat(-(x.n * y.d), x.d * (-(y.n)))

\* x * c for a positive integer c
NumScale(x, c) ==
    IF x.k = "fin" THEN Rat(x.n * c, x.d) ELSE x

\* x < y on numbers: false when either is NaN
NumLess(x, y) ==
    IF x.k = "nan" \/ y.k = "nan" THEN FALSE
    ELSE IF x.k = "inf" \/ y.k = "ninf" THEN FALSE
    ELSE IF x.k = "ninf" \/ y.k = "inf" THEN TRUE
    ELSE x.n * y.d < y.n * x.d

\* lexicographic order of two strings by character code
RECURSIVE StrLess(_, _)
StrLess(a, b) ==
    IF b = <<>> THEN FALSE
    ELSE IF a = <<>> THEN TRUE
    ELSE IF a[1] # b[1] THEN a[1] < b[1]
    ELSE StrLess(Tail(a), Tail(b))

\* a < b: two strings compare as strings, anything else as numbers
JsLess(a, b) ==
    IF a.t = "string" /\ b.t = "string" THEN StrLess(a.s, b.s)
    ELSE NumLess(ToNumber(a), ToNumber(b))

\* a > b
JsGreater(a, b) == JsLess(b, a)

\* a - b and a / b
JsMinus(a, b) == NumSub(ToNumber(a), ToNumber(b))
JsDivide(a, b) == NumDiv(ToNumber(a), ToNumber(b))

\* a === b: no conversion; NaN equals nothing
StrictEquals(a, b) ==
    /\ a.t = b.t
    /\ CASE a.t = "number" ->
                /\ a.k # "nan" /\ b.k # "nan"
                /\ a.k = b.k
                /\ (a.k = "fin" => a.n * b.d = b.n * a.d)
         [] a.t = "string" -> a.s = b.s
         [] OTHER -> TRUE

\* ToBoolean
Truthy(v) ==
    CASE v.t = "number" -> v.k # "nan" /\ ~(v.k = "fin" /\ v.n = 0)
      [] v.t = "string" -> v.s # <<>>
      [] OTHER -> FALSE

\* a || b
JsOr(a, b) == IF Truthy(a) THEN a ELSE b

-----------------------------------------------------------------------------
(* MarketDataTable: reconciliation of a snapshot against the baseline *)

Fields == {"ltp", "open", "high", "low", "close", "volume"}

\* 'BUY', 'SELL', 'HOLD', 'UNKNOWN'
BUY == Str(<<66, 85, 89>>)
SELL == Str(<<83, 69, 76, 76>>)
HOLD == Str(<<72, 79, 76, 68>>)
UNKNOWN == Str(<<85, 78, 75, 78, 79, 87, 78>>)
\* 'all', '', 'NIFTY50-INDEX'
ALL == Str(<<97, 108, 108>>)
EmptyString == Str(<<>>)
NIFTY50 == Str(<<78, 73, 70, 84, 89, 53, 48, 45, 73, 78, 68, 69, 88>>)
\* the string new Date().toISOString() returns, whatever the time
NowISO == Str(<<84>>)

\* a payload that is an object with these properties
Quote(sym, l, o, h, lo, c, v, ts) ==
    [kind |-> "object", symbol |-> sym, ltp |-> l, open |-> o, high |-> h,
     low |-> lo, close |-> c, volume |-> v, timestamp |-> ts]
\* a payload that is null, undefined, or a primitive (a number, true)
NonObject(kind) ==
    [kind |-> kind, symbol |-> Undefined, ltp |-> Undefined, open |-> Undefined,
     high |-> Undefined, low |-> Undefined, close |-> Undefined,
     volume |-> Undefined, timestamp |-> Undefined]
NullItem == NonObject("null")
UndefinedItem == NonObject("undefined")
PrimitiveItem == NonObject("primitive")

\* item.f: a property of a primitive is undefined; of null or undefined it throws
Throws(item) == item.kind \in {"null", "undefined"}
Get(item, f) == IF item.kind = "object" THEN item[f] ELSE Undefined

\* prevItem.f with prevItem = prevDataRef.current[key] || {}
PrevGet(prev, key, f) ==
    IF key \in DOMAIN prev THEN prev[key][f] ELSE Undefined

\* changed = value !== prev
Changed(value, prev) == ~StrictEquals(value, prev)

\* the direction with the two arrows exchanged
Direction_Swapped(value, prev) ==
    IF Changed(value, prev)
    THEN (IF JsGreater(value, prev) THEN "down" ELSE "up")
    ELSE "null"

\* direction = changed ? (value > prev ? 'up' : 'down') : null
Direction(value, prev) ==
    IF Changed(value, prev)
    THEN (IF JsGreater(value, prev) THEN "up" ELSE "down")
    ELSE "null"

\* change = item.ltp - item.close
Change(item) == JsMinus(Get(item, "ltp"), Get(item, "close"))

\* change_percent = (change / item.close) * 100
ChangePercent(item) ==
    NumScale(JsDivide(Change(item), Get(item, "close")), 100)

\* volatility = ((item.high - item.low) / item.close) * 100
Volatility(item) ==
    NumScale(JsDivide(JsMinus(Get(item, "high"), Get(item, "low")),
                      Get(item, "close")), 100)

\* shortTermTrend = item.ltp > item.close ? 'up' : 'down'
ShortTermTrend(item) ==
    IF JsGreater(Get(item, "ltp"), Get(item, "close")) THEN "up" ELSE "down"

\* the signal with inclusive thresholds: >= 1, <= -1, <= 5
TradingSignal_Inclusive(item) ==
    IF /\ ShortTermTrend(item) = "up"
       /\ ~JsLess(ChangePercent(item), Num(1))
       /\ ~JsGreater(Volatility(item), Num(5))
    THEN BUY
    ELSE IF /\ ShortTermTrend(item) = "down"
            /\ ~JsGreater(ChangePercent(item), Num(-1))
            /\ ~JsGreater(Volatility(item), Num(5))
         THEN SELL
         ELSE HOLD

TradingSignal(item) ==
    IF /\ ShortTermTrend(item) = "up"
       /\ JsGreater(ChangePercent(item), Num(1))
       /\ JsLess(Volatility(item), Num(5))
    THEN BUY
    ELSE IF /\ ShortTermTrend(item) = "down"
            /\ JsLess(ChangePercent(item), Num(-1))
            /\ JsLess(Volatility(item), Num(5))
         THEN SELL
         ELSE HOLD

\* typeof item.f === 'number' ? item.f : 0
Coerce(value) == IF TypeOf(value) = "number" THEN value ELSE Num(0)

\* processedData[key]
ProcessItem(key, item, prev) ==
    [symbol |-> JsOr(Get(item, "symbol"), UNKNOWN),
     ltp |-> Coerce(Get(item, "ltp")),
     open |-> Coerce(Get(item, "open")),
     high |-> Coerce(Get(item, "high")),
     low |-> Coerce(Get(item, "low")),
     close |-> Coerce(Get(item, "close")),
     volume |-> Coerce(Get(item, "volume")),
     change |-> Change(item),
     change_percent |-> ChangePercent(item),
     trading_signal |-> TradingSignal(item),
     timestamp |-> JsOr(Get(item, "timestamp"), NowISO),
     ltp_changed |-> Changed(Get(item, "ltp"), PrevGet(prev, key, "ltp")),
     open_changed |-> Changed(Get(item, "open"), PrevGet(prev, key, "open")),
     high_changed |-> Changed(Get(item, "high"), PrevGet(prev, key, "high")),
     low_changed |-> Changed(Get(item, "low"), PrevGet(prev, key, "low")),
     close_changed |-> Changed(Get(item, "close"), PrevGet(prev, key, "close")),
     volume_changed |->
         Changed(Get(item, "volume"), PrevGet(prev, key, "volume")),
     signal_changed |->
         ~StrictEquals(PrevGet(prev, key, "trading_signal"), TradingSignal(item)),
     ltp_direction |-> Direction(Get(item, "ltp"), PrevGet(prev, key, "ltp")),
     open_direction |-> Direction(Get(item, "open"), PrevGet(prev, key, "open")),
     high_direction |-> Direction(Get(item, "high"), PrevGet(prev, key, "high")),
     low_direction |-> Direction(Get(item, "low"), PrevGet(prev, key, "low")),
     close_direction |->
         Direction(Get(item, "close"), PrevGet(prev, key, "close")),
     volume_direction |->
         Direction(Get(item, "volume"), PrevGet(prev, key, "volume")),
     prev_ltp |-> JsOr(PrevGet(prev, key, "ltp"), Num(0)),
     prev_open |-> JsOr(PrevGet(prev, key, "open"), Num(0)),
     prev_high |-> JsOr(PrevGet(prev, key, "high"), Num(0)),
     prev_low |-> JsOr(PrevGet(prev, key, "low"), Num(0)),
     prev_close |-> JsOr(PrevGet(prev, key, "close"), Num(0)),
     prev_volume |-> JsOr(PrevGet(prev, key, "volume"), Num(0))]

\* the forEach over Object.entries(marketData)
ProcessedData(md, prev) ==
    [key \in DOMAIN md |-> ProcessItem(key, md[key], prev)]

\* reading a property of a null or undefined payload raises a TypeError
ReconcileThrows(md) == \E key \in DOMAIN md : Throws(md[key])

\* the mapping with no keys, {}
EmptyMapping == [key \in {} |-> NullItem]

\* useEffect(() => {...}, [marketData]) for the new value md of marketData
ReconcileEffect(md) ==
    IF DOMAIN md = {}
    THEN UNCHANGED tableVars
    ELSE IF ReconcileThrows(md)
         THEN /\ raised' = TRUE
              /\ UNCHANGED <<dataWithDefaults, prevDataRef, filterSignal, searchTerm>>
         ELSE /\ dataWithDefaults' = ProcessedData(md, prevDataRef)
              /\ prevDataRef' = ProcessedData(md, prevDataRef)
              /\ UNCHANGED <<raised, filterSignal, searchTerm>>

-----------------------------------------------------------------------------
(* ConnectionStatus: what the flags display *)

\* the message of the if / else-if chain
Message ==
    IF isConnected THEN "Connected to server successfully!"
    ELSE IF serverIssueDetected
         THEN (IF ~isAttemptingReconnect
               THEN "Failed to connect to the server. It appears to be offline or experiencing issues. Please try again later."
               ELSE "Unable to connect to the server. It might be offline or experiencing issues. Retrying...")
         ELSE IF isAttemptingReconnect
              THEN "Attempting to reconnect to server..."
              ELSE "Disconnected from server. Please check your connection or retry."

\* the modal is rendered at all
ModalRendered == showConnectionModal

\* the 'Retry Connection' button is rendered
RetryShown == showConnectionModal /\ ~isConnected

\* the tracker state the three flags stand for
TrackerState ==
    IF isConnected THEN "Connected"
    ELSE IF serverIssueDetected
         THEN (IF isAttemptingReconnect THEN "ServerIssueRetrying"
               ELSE "ServerIssueFailed")
         ELSE IF isAttemptingReconnect THEN "Reconnecting" ELSE "Disconnected"

-----------------------------------------------------------------------------
(* App: the socket, its handlers, manual reconnect, fallback fetch *)

\* the module's socket: connected, active (the manager is connecting or will
\* retry by itself), listening (the handlers are attached), opening (a
\* connection attempt is under way), attempts (reconnect attempts made in the
\* current retry loop)
NoSocket ==
    [exists |-> FALSE, connected |-> FALSE, active |-> FALSE, listening |-> FALSE,
     opening |-> FALSE, attempts |-> 0]
\* io(url, {autoConnect: false}) with the handlers attached, then socket.connect()
NewSocket ==
    [exists |-> TRUE, connected |-> FALSE, active |-> TRUE, listening |-> TRUE,
     opening |-> TRUE, attempts |-> 0]

Overflow == <<"...">>
\* hist with the event e appended; it saturates after MaxHist events
Logged(e) ==
    IF hist # Overflow /\ Len(hist) < MaxHist THEN Append(hist, e) ELSE Overflow

\* new Date(): a time other than the one lastUpdate holds (a clock of MaxClock
\* ticks that wraps around)
NextDate == (lastUpdate % MaxClock) + 1

\* the App's own callbacks run while the component is mounted and no effect has
\* thrown; the socket's handlers run while they are attached to it
Running == lifecycle = "mounted" /\ ~raised
Listening == ~raised /\ socket.listening

\* useState initial values: the first render, before the mount effect
Init ==
    /\ marketData = EmptyMapping
    /\ isConnected = FALSE
    /\ lastUpdate = 0
    /\ showConnectionModal = TRUE
    /\ isAttemptingReconnect = FALSE
    /\ serverIssueDetected = FALSE
    /\ socket = NoSocket
    /\ fetches = 0
    /\ lifecycle = "initial"
    /\ dataWithDefaults = EmptyMapping
    /\ prevDataRef = EmptyMapping
    /\ raised = FALSE
    /\ filterSignal = ALL
    /\ searchTerm = EmptyString
    /\ hist = <<>>

\* connectSocket(), called with serverIssueDetected about to be si
ConnectSocket(si) ==
    /\ isConnected' = IF socket.exists /\ socket.connected THEN FALSE ELSE isConnected
    /\ serverIssueDetected' = IF socket.exists /\ socket.connected THEN FALSE ELSE si
    /\ showConnectionModal' = TRUE
    /\ isAttemptingReconnect' = TRUE
    /\ socket' = NewSocket

\* useEffect(() => { connectSocket(); ... }, [connectSocket])
Mount ==
    /\ lifecycle = "initial"
    /\ lifecycle' = "mounted"
    /\ ConnectSocket(serverIssueDetected)
    /\ UNCHANGED <<marketData, lastUpdate, fetches, tableVars, hist>>

\* socket.on('connect') as it would be without its
\* setServerIssueDetected(false)
OnConnect_KeepsIssue ==
    /\ Listening
    /\ ~socket.connected /\ socket.active
    /\ socket' = [socket EXCEPT !.connected = TRUE]
    /\ isConnected' = TRUE
    /\ showConnectionModal' = FALSE
    /\ isAttemptingReconnect' = FALSE
    /\ hist' = Logged("channel_opened")
    /\ UNCHANGED <<marketData, lastUpdate, serverIssueDetected, fetches,
                   lifecycle, tableVars>>

\* socket.on('connect')
OnConnect ==
    /\ Listening
    /\ ~socket.connected /\ socket.active
    /\ socket' = [socket EXCEPT !.connected = TRUE]
    /\ isConnected' = TRUE
    /\ showConnectionModal' = FALSE
    /\ isAttemptingReconnect' = FALSE
    /\ serverIssueDetected' = FALSE
    /\ hist' = Logged("channel_opened")
    /\ UNCHANGED <<marketData, lastUpdate, fetches, lifecycle, tableVars>>

\* reasons of a disconnect the client did not ask for
ServerReasons ==
    {"transport error", "ping timeout", "transport close", "io server disconnect"}

\* socket.on('disconnect') as it would be if only 'transport error' counted as
\* a server issue
DisconnectHandler_TimeoutUnclassified(reason) ==
    /\ isConnected' = FALSE
    /\ showConnectionModal' = TRUE
    /\ isAttemptingReconnect' = (reason # "io client disconnect")
    /\ serverIssueDetected' =
           IF reason = "io client disconnect" THEN FALSE
           ELSE IF reason = "transport error" THEN TRUE
           ELSE serverIssueDetected

\* the assignments of socket.on('disconnect') for a reason
DisconnectHandler(reason) ==
    /\ isConnected' = FALSE
    /\ showConnectionModal' = TRUE
    /\ isAttemptingReconnect' = (reason # "io client disconnect")
    /\ serverIssueDetected' =
           IF reason = "io client disconnect" THEN FALSE
           ELSE IF reason \in {"transport error", "ping timeout"} THEN TRUE
           ELSE serverIssueDetected

\* socket.on('disconnect') for a close the client did not ask for
OnDisconnect(reason) ==
    /\ Listening
    /\ socket.connected
    /\ socket' = [socket EXCEPT !.connected = FALSE,
                                !.active = (reason # "io server disconnect")]
    /\ DisconnectHandler(reason)
    /\ hist' = Logged("channel_closed")
    /\ UNCHANGED <<marketData, lastUpdate, fetches, lifecycle, tableVars>>

\* socket.on('connect_error') as it would be without its
\* setShowConnectionModal(true)
OnConnectError_KeepsModal ==
    /\ Listening
    /\ ~socket.connected /\ socket.active
    /\ isConnected' = FALSE
    /\ isAttemptingReconnect' = TRUE
    /\ serverIssueDetected' = TRUE
    /\ hist' = Logged("connect_error")
    /\ UNCHANGED <<marketData, lastUpdate, showConnectionModal, socket, fetches,
                   lifecycle, tableVars>>

\* socket.on('connect_error')
OnConnectError ==
    /\ Listening
    /\ ~socket.connected /\ socket.active
    /\ isConnected' = FALSE
    /\ showConnectionModal' = TRUE
    /\ isAttemptingReconnect' = TRUE
    /\ serverIssueDetected' = TRUE
    /\ hist' = Logged("connect_error")
    /\ UNCHANGED <<marketData, lastUpdate, socket, fetches, lifecycle, tableVars>>

\* socket.on('reconnect_attempt') as it would be if each attempt reset the
\* server-issue flag
OnReconnectAttempt_ResetsIssue ==
    /\ Listening
    /\ ~socket.connected /\ socket.active
    /\ isAttemptingReconnect' = TRUE
    /\ showConnectionModal' = TRUE
    /\ serverIssueDetected' = FALSE
    /\ hist' = Logged("reconnect_attempt")
    /\ UNCHANGED <<marketData, isConnected, lastUpdate,
                   socket, fetches, lifecycle, tableVars>>

\* socket.on('reconnect_attempt')
OnReconnectAttempt ==
    /\ Listening
    /\ ~socket.connected /\ socket.active
    /\ isAttemptingReconnect' = TRUE
    /\ showConnectionModal' = TRUE
    /\ hist' = Logged("reconnect_attempt")
    /\ UNCHANGED <<marketData, isConnected, lastUpdate, serverIssueDetected,
                   socket, fetches, lifecycle, tableVars>>

\* socket.on('reconnect_failed'): the manager gives up
OnReconnectFailed ==
    /\ Listening
    /\ ~socket.connected /\ socket.active
    /\ socket' = [socket EXCEPT !.active = FALSE]
    /\ isAttemptingReconnect' = FALSE
    /\ serverIssueDetected' = TRUE
    /\ hist' = Logged("reconnect_exhausted")
    /\ UNCHANGED <<marketData, isConnected, lastUpdate, showConnectionModal,
                   fetches, lifecycle, tableVars>>

\* a 'market_data' payload: data is missing, has no data member, or carries one
NoPayload == [kind |-> "missing", data |-> EmptyMapping]
NoDataMember == [kind |-> "nodata", data |-> EmptyMapping]
Snapshot(md) == [kind |-> "data", data |-> md]

\* the test as it would be without its second operand: if (data)
ValidPayload_AnyObject(p) == p.kind # "missing"

\* if (data && data.data)
ValidPayload(p) == p.kind = "data"

\* socket.on('market_data') as it would be without its
\* setShowConnectionModal(false)
OnMarketData_KeepsModal(p) ==
    /\ Listening
    /\ socket.connected
    /\ IF ValidPayload(p)
       THEN /\ marketData' = p.data
            /\ lastUpdate' = NextDate
            /\ isConnected' = TRUE
            /\ isAttemptingReconnect' = FALSE
            /\ ReconcileEffect(p.data)
            /\ hist' = Logged("data_received")
            /\ UNCHANGED showConnectionModal
       ELSE /\ UNCHANGED <<marketData, lastUpdate, isConnected,
                           showConnectionModal, isAttemptingReconnect, tableVars>>
            /\ hist' = Logged("data_invalid")
    /\ UNCHANGED <<serverIssueDetected, socket, fetches, lifecycle>>

\* socket.on('market_data'), and the table's effect on the new marketData
OnMarketData(p) ==
    /\ Listening
    /\ socket.connected
    /\ IF ValidPayload(p)
       THEN /\ marketData' = p.data
            /\ lastUpdate' = NextDate
            /\ isConnected' = TRUE
            /\ showConnectionModal' = FALSE
            /\ isAttemptingReconnect' = FALSE
            /\ ReconcileEffect(p.data)
            /\ hist' = Logged("data_received")
       ELSE /\ UNCHANGED <<marketData, lastUpdate, isConnected,
                           showConnectionModal, isAttemptingReconnect, tableVars>>
            /\ hist' = Logged("data_invalid")
    /\ UNCHANGED <<serverIssueDetected, socket, fetches, lifecycle>>

\* handleManualReconnect without its setServerIssueDetected(false)
HandleManualReconnect_KeepsIssue ==
    /\ Running
    /\ RetryShown
    /\ IF socket.exists /\ ~socket.connected
       THEN /\ showConnectionModal' = TRUE
            /\ isAttemptingReconnect' = TRUE
            /\ socket' = [socket EXCEPT !.active = TRUE]
            /\ UNCHANGED <<isConnected, serverIssueDetected>>
       ELSE IF ~socket.exists
            THEN ConnectSocket(serverIssueDetected)
            ELSE UNCHANGED <<isConnected, showConnectionModal,
                             isAttemptingReconnect, socket, serverIssueDetected>>
    /\ hist' = Logged("user_retry")
    /\ UNCHANGED <<marketData, lastUpdate, fetches, lifecycle, tableVars>>

\* handleManualReconnect, the onRetry of the button
HandleManualReconnect ==
    /\ Running
    /\ RetryShown
    /\ IF socket.exists /\ ~socket.connected
       THEN /\ serverIssueDetected' = FALSE
            /\ showConnectionModal' = TRUE
            /\ isAttemptingReconnect' = TRUE
            /\ socket' = [socket EXCEPT !.active = TRUE]
            /\ UNCHANGED isConnected
       ELSE IF ~socket.exists
            THEN ConnectSocket(FALSE)
            ELSE /\ serverIssueDetected' = FALSE
                 /\ UNCHANGED <<isConnected, showConnectionModal,
                                isAttemptingReconnect, socket>>
    /\ hist' = Logged("user_retry")
    /\ UNCHANGED <<marketData, lastUpdate, fetches, lifecycle, tableVars>>

\* what a fallback fetch comes back with
FetchFailures == {"http_error", "bad_json", "bad_status", "no_data"}
FetchFailure(kind) == [kind |-> kind, data |-> EmptyMapping]
FetchSuccess(md) == [kind |-> "success", data |-> md]

\* handleRefresh up to fetch(apiUrl): one more request is in flight
HandleRefresh ==
    /\ Running
    /\ fetches < MaxFetches
    /\ fetches' = fetches + 1
    /\ UNCHANGED <<marketData, lastUpdate, appFlags, socket, lifecycle,
                   tableVars, hist>>

\* the .then / .catch of handleRefresh as they would be if a response were
\* dropped whenever the socket is connected
FetchResolved_DroppedWhenConnected(r) ==
    /\ Running
    /\ fetches > 0
    /\ fetches' = fetches - 1
    /\ IF r.kind = "success" /\ ~socket.connected
       THEN /\ marketData' = r.data
            /\ lastUpdate' = NextDate
            /\ isConnected' = TRUE
            /\ showConnectionModal' = FALSE
            /\ ReconcileEffect(r.data)
            /\ hist' = Logged("fetch_success")
       ELSE IF r.kind = "success"
            THEN /\ hist' = Logged("fetch_success")
                 /\ UNCHANGED <<marketData, lastUpdate, isConnected,
                                showConnectionModal, tableVars>>
            ELSE /\ isConnected' = FALSE
                 /\ showConnectionModal' = TRUE
                 /\ hist' = Logged("fetch_failure")
                 /\ UNCHANGED <<marketData, lastUpdate, tableVars>>
    /\ UNCHANGED <<isAttemptingReconnect, serverIssueDetected, socket, lifecycle>>

\* the .then / .catch of handleRefresh as they would be if the .catch only
\* logged the error
FetchResolved_CatchOnlyLogs(r) ==
    /\ Running
    /\ fetches > 0
    /\ fetches' = fetches - 1
    /\ IF r.kind = "success"
       THEN /\ marketData' = r.data
            /\ lastUpdate' = NextDate
            /\ isConnected' = TRUE
            /\ showConnectionModal' = FALSE
            /\ ReconcileEffect(r.data)
            /\ hist' = Logged("fetch_success")
       ELSE /\ IF r.kind \in {"http_error", "bad_json"}
               THEN UNCHANGED <<isConnected, showConnectionModal>>
               ELSE isConnected' = FALSE /\ showConnectionModal' = TRUE
            /\ hist' = Logged("fetch_failure")
            /\ UNCHANGED <<marketData, lastUpdate, tableVars>>
    /\ UNCHANGED <<isAttemptingReconnect, serverIssueDetected, socket, lifecycle>>

\* the .then / .catch of handleRefresh for the response r of a request in
\* flight, and the table's effect
FetchResolved(r) ==
    /\ Running
    /\ fetches > 0
    /\ fetches' = fetches - 1
    /\ IF r.kind = "success"
       THEN /\ marketData' = r.data
            /\ lastUpdate' = NextDate
            /\ isConnected' = TRUE
            /\ showConnectionModal' = FALSE
            /\ ReconcileEffect(r.data)
            /\ hist' = Logged("fetch_success")
       ELSE /\ isConnected' = FALSE
            /\ showConnectionModal' = TRUE
            /\ hist' = Logged("fetch_failure")
            /\ UNCHANGED <<marketData, lastUpdate, tableVars>>
    /\ UNCHANGED <<isAttemptingReconnect, serverIssueDetected, socket, lifecycle>>

\* the mount effect as it would be without a cleanup function
Unmount_NoCleanup ==
    /\ lifecycle = "mounted"
    /\ lifecycle' = "unmounted"
    /\ UNCHANGED <<marketData, lastUpdate, appFlags, socket, fetches, tableVars,
                   hist>>

\* the cleanup of the mount effect: socket.disconnect(); socket.off()
Unmount ==
    /\ lifecycle = "mounted"
    /\ lifecycle' = "unmounted"
    /\ IF socket.exists /\ socket.connected
       THEN DisconnectHandler("io client disconnect")
       ELSE UNCHANGED appFlags
    /\ socket' = [socket EXCEPT !.connected = FALSE, !.active = FALSE,
                                !.listening = FALSE]
    /\ UNCHANGED <<marketData, lastUpdate, fetches, tableVars, hist>>

-----------------------------------------------------------------------------
(* The dashboard: connection tracking with small numeric snapshots *)

AppKeys == {"A", "B"}
AppLtps == {100, 103}

\* the symbol the server sends for a key: 'A', 'B'
SymbolOf(key) == IF key = "A" THEN Str(<<65>>) ELSE Str(<<66>>)

\* a well-formed quote: all six fields numbers, no timestamp
NumQuote(sym, l, o, h, lo, c, v) ==
    Quote(sym, Num(l), Num(o), Num(h), Num(lo), Num(c), Num(v), Undefined)

AppQuote(key, l) == NumQuote(SymbolOf(key), l, 100, 104, 99, 100, 10)

\* every mapping from some of the keys to a quote
AppSnapshots ==
    { [key \in DOMAIN f |-> AppQuote(key, f[key])] :
        f \in UNION { [K -> AppLtps] : K \in SUBSET AppKeys } }

AppPayloads == {NoPayload, NoDataMember} \cup { Snapshot(md) : md \in AppSnapshots }

AppResponses ==
    { FetchFailure(kind) : kind \in FetchFailures }
        \cup { FetchSuccess(md) : md \in AppSnapshots }

Next ==
    \/ Mount
    \/ OnConnect
    \/ \E reason \in ServerReasons : OnDisconnect(reason)
    \/ OnConnectError
    \/ OnReconnectAttempt
    \/ OnReconnectFailed
    \/ \E p \in AppPayloads : OnMarketData(p)
    \/ HandleManualReconnect
    \/ HandleRefresh
    \/ \E r \in AppResponses : FetchResolved(r)
    \/ Unmount

Spec == Init /\ [][Next]_vars

-----------------------------------------------------------------------------
(* MarketDataTable: the filtered view (SpecFilter) *)

\* String.prototype.toLowerCase on ASCII
ToLowerCase(codes) ==
    [i \in 1..Len(codes) |->
        IF codes[i] >= 65 /\ codes[i] <= 90 THEN codes[i] + 32 ELSE codes[i]]

\* String.prototype.includes
Includes(codes, part) ==
    \E i \in 0..(Len(codes) - Len(part)) :
        SubSeq(codes, i + 1, i + Len(part)) = part

\* a.localeCompare(b) on ASCII letters, digits and '-': the strings without
\* regard to case decide ('-' before digits before letters); if those are
\* equal, lower case comes before upper case at the first difference
LocaleCompare(a, b) ==
    IF StrLess(ToLowerCase(a), ToLowerCase(b)) THEN -1
    ELSE IF StrLess(ToLowerCase(b), ToLowerCase(a)) THEN 1
    ELSE IF StrLess(b, a) THEN -1
    ELSE IF StrLess(a, b) THEN 1
    ELSE 0

\* the callback of .filter as it would be with searchTerm not lower-cased
Matches_TermAsTyped(item, filter, term) ==
    /\ ~StrictEquals(item.symbol, NIFTY50)
    /\ StrictEquals(filter, ALL) \/ StrictEquals(item.trading_signal, filter)
    /\ \/ StrictEquals(term, EmptyString)
       \/ Includes(ToLowerCase(item.symbol.s), term.s)

\* the callback of .filter (the symbol of a record is a string here)
Matches(item, filter, term) ==
    /\ ~StrictEquals(item.symbol, NIFTY50)
    /\ StrictEquals(filter, ALL) \/ StrictEquals(item.trading_signal, filter)
    /\ \/ StrictEquals(term, EmptyString)
       \/ Includes(ToLowerCase(item.symbol.s), ToLowerCase(term.s))

\* .sort((a, b) => a.symbol.localeCompare(b.symbol)) of the records of the keys
\* K of a mapping
RECURSIVE SortBySymbol(_, _)
SortBySymbol(data, K) ==
    IF K = {} THEN <<>>
    ELSE LET first == CHOOSE k \in K :
                 \A j \in K :
                     LocaleCompare(data[k].symbol.s, data[j].symbol.s) <= 0
         IN  <<data[first]>> \o SortBySymbol(data, K \ {first})

\* filteredData
FilteredData ==
    IF DOMAIN dataWithDefaults = {} THEN <<>>
    ELSE SortBySymbol(dataWithDefaults,
             { k \in DOMAIN dataWithDefaults :
                   Matches(dataWithDefaults[k], filterSignal, searchTerm) })

\* handleSignalFilterChange
HandleSignalFilterChange(value) ==
    /\ Running
    /\ filterSignal' = value
    /\ UNCHANGED <<marketData, lastUpdate, appFlags, socket, fetches, lifecycle,
                   dataWithDefaults, prevDataRef, raised, searchTerm, hist>>

\* handleSearchChange
HandleSearchChange(value) ==
    /\ Running
    /\ searchTerm' = value
    /\ UNCHANGED <<marketData, lastUpdate, appFlags, socket, fetches, lifecycle,
                   dataWithDefaults, prevDataRef, raised, filterSignal, hist>>

\* the options of the select, and texts typed into the search box:
\* '', 'I', 'in', 'tc'
FilterOptions == {ALL, BUY, SELL, HOLD}
SearchTerms ==
    {EmptyString, Str(<<73>>), Str(<<105, 110>>), Str(<<116, 99>>)}

\* the symbols 'ITC', 'infy' and the index, keyed by themselves
FilterKeys == {"ITC", "infy", "NIFTY50-INDEX"}
FilterSymbol(key) ==
    IF key = "ITC" THEN Str(<<73, 84, 67>>)
    ELSE IF key = "infy" THEN Str(<<105, 110, 102, 121>>)
    ELSE NIFTY50
\* the prices a key is sent with: ITC SELL or BUY, infy HOLD or BUY, index HOLD
FilterLtps(key) ==
    IF key = "ITC" THEN {97, 103}
    ELSE IF key = "infy" THEN {100, 103}
    ELSE {100}
FilterQuote(key, l) == NumQuote(FilterSymbol(key), l, 100, 102, 99, 100, 10)

FilterSnapshots ==
    { [key \in DOMAIN f |-> FilterQuote(key, f[key])] :
        f \in { g \in UNION { [K -> {97, 100, 103}] : K \in SUBSET FilterKeys } :
                   \A key \in DOMAIN g : g[key] \in FilterLtps(key) } }

NextFilter ==
    \/ Mount
    \/ OnConnect
    \/ \E md \in FilterSnapshots : OnMarketData(Snapshot(md))
    \/ \E value \in FilterOptions : HandleSignalFilterChange(value)
    \/ \E value \in SearchTerms : HandleSearchChange(value)

SpecFilter == Init /\ [][NextFilter]_vars

-----------------------------------------------------------------------------
(* The retry loop of a server that never answers (SpecRetry) *)

\* io(url, {reconnectionAttempts: 5, ...})
reconnectionAttempts == 5

\* the connection attempt under way fails: socket.on('connect_error')
ConnectFails ==
    /\ Listening
    /\ ~socket.connected /\ socket.active /\ socket.opening
    /\ socket' = [socket EXCEPT !.opening = FALSE]
    /\ isConnected' = FALSE
    /\ showConnectionModal' = TRUE
    /\ isAttemptingReconnect' = TRUE
    /\ serverIssueDetected' = TRUE
    /\ hist' = Logged("connect_error")
    /\ UNCHANGED <<marketData, lastUpdate, fetches, lifecycle, tableVars>>

\* the manager starts its next attempt, while fewer than reconnectionAttempts
\* were made: socket.on('reconnect_attempt')
RetryAttempt ==
    /\ Listening
    /\ ~socket.connected /\ socket.active /\ ~socket.opening
    /\ socket.attempts < reconnectionAttempts
    /\ socket' = [socket EXCEPT !.opening = TRUE, !.attempts = @ + 1]
    /\ isAttemptingReconnect' = TRUE
    /\ showConnectionModal' = TRUE
    /\ hist' = Logged("reconnect_attempt")
    /\ UNCHANGED <<marketData, isConnected, lastUpdate, serverIssueDetected,
                   fetches, lifecycle, tableVars>>

\* socket.on('reconnect_failed') as it would be without its
\* setIsAttemptingReconnect(false)
RetryExhausted_KeepsAttempting ==
    /\ Listening
    /\ ~socket.connected /\ socket.active /\ ~socket.opening
    /\ socket.attempts >= reconnectionAttempts
    /\ socket' = [socket EXCEPT !.active = FALSE, !.attempts = 0]
    /\ serverIssueDetected' = TRUE
    /\ hist' = Logged("reconnect_exhausted")
    /\ UNCHANGED <<marketData, isConnected, lastUpdate, showConnectionModal,
                   isAttemptingReconnect, fetches, lifecycle, tableVars>>

\* the manager gives up after reconnectionAttempts attempts and resets its
\* count: socket.on('reconnect_failed')
RetryExhausted ==
    /\ Listening
    /\ ~socket.connected /\ socket.active /\ ~socket.opening
    /\ socket.attempts >= reconnectionAttempts
    /\ socket' = [socket EXCEPT !.active = FALSE, !.attempts = 0]
    /\ isAttemptingReconnect' = FALSE
    /\ serverIssueDetected' = TRUE
    /\ hist' = Logged("reconnect_exhausted")
    /\ UNCHANGED <<marketData, isConnected, lastUpdate, showConnectionModal,
                   fetches, lifecycle, tableVars>>

\* what a fallback fetch comes back with here: any failure, or one snapshot
RetryResponses ==
    { FetchFailure(kind) : kind \in FetchFailures }
        \cup { FetchSuccess([key \in {"A"} |-> AppQuote("A", 100)]) }

NextRetry ==
    \/ Mount
    \/ ConnectFails
    \/ RetryAttempt
    \/ RetryExhausted
    \/ HandleManualReconnect
    \/ HandleRefresh
    \/ \E r \in RetryResponses : FetchResolved(r)
    \/ Unmount

\* the attempts time out and the manager's timers fire
SpecRetry ==
    /\ Init
    /\ [][NextRetry]_vars
    /\ WF_vars(ConnectFails)
    /\ WF_vars(RetryAttempt)
    /\ WF_vars(RetryExhausted)

-----------------------------------------------------------------------------
(* The reconciler fed with malformed payloads (SpecRecon) *)

\* 'abc', '100', '103'
RawValues ==
    {Num(100), Num(103), NaN, Null, Undefined,
     Str(<<97, 98, 99>>), Str(<<49, 48, 48>>), Str(<<49, 48, 51>>)}
RawCloses == {Num(100), Null, Str(<<49, 48, 48>>)}

BaseQuote(key) == NumQuote(SymbolOf(key), 100, 100, 104, 101, 100, 10)

\* the payloads sent for key A: the base quote with one field replaced by any raw
\* value, or with ltp and close replaced, or without a symbol, or no object at all
ReconItemsA ==
    { [BaseQuote("A") EXCEPT ![f] = v] : f \in Fields, v \in RawValues }
        \cup { [BaseQuote("A") EXCEPT !.ltp = v, !.close = c] :
                   v \in RawValues, c \in RawCloses }
        \cup { [BaseQuote("A") EXCEPT !.symbol = Undefined] }
        \cup { NullItem, UndefinedItem, PrimitiveItem }
ReconItemsB == { BaseQuote("B") }

\* the snapshots: none, A alone with any of its payloads, B alone, A and B
ReconSnapshots ==
    { EmptyMapping }
        \cup { [key \in {"A"} |-> q] : q \in ReconItemsA }
        \cup { [key \in {"B"} |-> q] : q \in ReconItemsB }
        \cup { [key \in AppKeys |-> BaseQuote(key)] }

NextRecon ==
    \/ Mount
    \/ OnConnect
    \/ \E md \in ReconSnapshots : OnMarketData(Snapshot(md))

SpecRecon == Init /\ [][NextRecon]_vars

-----------------------------------------------------------------------------
(* The reconciler fed with well-formed prices around the thresholds (SpecSignal) *)

\* 98.99, 99, 100, 100.9, 101, 101.01, 102
SignalLtps ==
    {Rat(9899, 100), Num(99), Num(100), Rat(1009, 10), Num(101),
     Rat(10101, 100), Num(102)}
SignalCloses == {0, 50, 100}
SignalHighs == {102, 104, 105}

\* quotes with close 0 and high (98) below low (99), ltp positive or negative
InvertedQuotes ==
    { Quote(SymbolOf("A"), l, Num(100), Num(98), Num(99), Num(0), Num(10), Undefined) :
          l \in {Num(100), Num(-100)} }

SignalQuotes ==
    { Quote(SymbolOf("A"), l, Num(100), Num(h), Num(99), Num(c), Num(10), Undefined) :
          l \in SignalLtps, h \in SignalHighs, c \in SignalCloses }
        \cup InvertedQuotes

SignalSnapshots == { [key \in {"A"} |-> q] : q \in SignalQuotes }

NextSignal ==
    \/ Mount
    \/ OnConnect
    \/ \E md \in SignalSnapshots : OnMarketData(Snapshot(md))

SpecSignal == Init /\ [][NextSignal]_vars

-----------------------------------------------------------------------------
(* Claims about the reconciler (SpecRecon, SpecSignal) *)

\* this step accepted a snapshot (setMarketData and setLastUpdate ran)
Accepted == lastUpdate' # lastUpdate
\* ... and the table's effect reconciled it to the end
Reconciled == Accepted /\ DOMAIN marketData' # {} /\ ~raised'

ChangedFlag(rec, f) ==
    CASE f = "ltp" -> rec.ltp_changed
      [] f = "open" -> rec.open_changed
      [] f = "high" -> rec.high_changed
      [] f = "low" -> rec.low_changed
      [] f = "close" -> rec.close_changed
      [] f = "volume" -> rec.volume_changed
DirectionOf(rec, f) ==
    CASE f = "ltp" -> rec.ltp_direction
      [] f = "open" -> rec.open_direction
      [] f = "high" -> rec.high_direction
      [] f = "low" -> rec.low_direction
      [] f = "close" -> rec.close_direction
      [] f = "volume" -> rec.volume_direction

\* a well-formed (finite) number, and the order of two of them
WellFormed(v) == v.t = "number" /\ v.k = "fin"
IsZero(v) == WellFormed(v) /\ v.n = 0
Above(a, b) == a.n * b.d > b.n * a.d
Same(a, b) == a.n * b.d = b.n * a.d

\* C1 (as claimed): when the snapshot just reconciled is delivered again, the
\* second reconciliation reports no change: every <field>_changed and
\* signal_changed is false for every symbol, whatever the field values.
C1_Idempotent ==
    [][(Reconciled /\ marketData' = marketData) =>
           \A key \in DOMAIN dataWithDefaults' :
               /\ \A f \in Fields : ~ChangedFlag(dataWithDefaults'[key], f)
               /\ ~dataWithDefaults'[key].signal_changed]_vars

\* C2: for a symbol of the baseline and of the incoming snapshot and each of the
\* six fields, new > old gives direction 'up', new < old gives 'down' (both
\* flagged as changed), new = old gives changed = false and direction null.
C2_Direction ==
    [][Reconciled =>
           \A key \in DOMAIN marketData' \cap DOMAIN prevDataRef :
               \A f \in Fields :
                   LET new == Get(marketData'[key], f)
                       old == prevDataRef[key][f]
                       rec == dataWithDefaults'[key]
                   IN  (WellFormed(new) /\ WellFormed(old)) =>
                           /\ Above(new, old) =>
                                  ChangedFlag(rec, f) /\ DirectionOf(rec, f) = "up"
                           /\ Above(old, new) =>
                                  ChangedFlag(rec, f) /\ DirectionOf(rec, f) = "down"
                           /\ Same(new, old) =>
                                  ~ChangedFlag(rec, f) /\ DirectionOf(rec, f) = "null"]_vars

\* ltp rose from 100 to 103, open fell from 103 to 100, volume stayed at 10
C2_Witness ==
    /\ "A" \in DOMAIN dataWithDefaults
    /\ dataWithDefaults["A"].ltp = Num(103)
    /\ dataWithDefaults["A"].prev_ltp = Num(100)
    /\ dataWithDefaults["A"].ltp_direction = "up"
    /\ dataWithDefaults["A"].open_direction = "down"
    /\ dataWithDefaults["A"].volume_direction = "null"

\* C3 (as claimed): a symbol with no entry in the baseline gets every
\* <field>_changed false and no direction; a symbol with a baseline gets
\* <field>_changed true iff the new value differs from the preceding one.
C3_FirstSeenNotFlagged ==
    [][Reconciled =>
           \A key \in DOMAIN marketData' :
               \A f \in Fields :
                   LET new == Get(marketData'[key], f)
                       rec == dataWithDefaults'[key]
                   IN  IF key \notin DOMAIN prevDataRef
                       THEN ~ChangedFlag(rec, f) /\ DirectionOf(rec, f) = "null"
                       ELSE (WellFormed(new) /\ WellFormed(prevDataRef[key][f])) =>
                                (ChangedFlag(rec, f) <=> ~Same(new, prevDataRef[key][f]))]_vars

\* C4: for numeric ltp, close, high, low with close > 0 the signal of the record
\* is BUY iff ltp > close, change% > 1 and volatility% < 5; SELL iff ltp <= close,
\* change% < -1 and volatility% < 5; HOLD otherwise, whatever was reconciled
\* before; exactly +1%, -1% or 5% give HOLD; BUY and SELL exclude each other.
C4_Signal ==
    (DOMAIN marketData # {} /\ ~raised) =>
        \A key \in DOMAIN marketData :
            LET q == marketData[key]
                c == q.close.n
                ln == q.ltp.n
                ld == q.ltp.d
                spread == q.high.n - q.low.n
                up == ln > c * ld
                buy == up /\ (ln - c * ld) * 100 > c * ld /\ spread * 100 < 5 * c
                sell == ~up /\ (ln - c * ld) * 100 < -(c * ld) /\ spread * 100 < 5 * c
                signal == dataWithDefaults[key].trading_signal
            IN  c > 0 =>
                    /\ ~(buy /\ sell)
                    /\ signal = (IF buy THEN BUY ELSE IF sell THEN SELL ELSE HOLD)
                    /\ (ln - c * ld) * 100 = c * ld => signal = HOLD
                    /\ (ln - c * ld) * 100 = -(c * ld) => signal = HOLD
                    /\ spread * 100 = 5 * c => signal = HOLD

\* close 100, ltp 101.01, high 102, low 99: BUY
C4_Witness ==
    /\ "A" \in DOMAIN dataWithDefaults
    /\ marketData["A"].ltp = Rat(10101, 100)
    /\ marketData["A"].close = Num(100)
    /\ marketData["A"].high = Num(102)
    /\ dataWithDefaults["A"].trading_signal = BUY
    /\ dataWithDefaults["A"].prev_ltp = Num(102)

\* C5 (as claimed): a quote whose ltp and close are no numbers (string, null,
\* missing) is reconciled to ltp 0, close 0, change 0 and HOLD, and each of the
\* six fields that is missing, not a number or NaN is stored as 0.
C5_SafeDefaults ==
    (DOMAIN marketData # {} /\ ~raised) =>
        \A key \in DOMAIN marketData :
            LET q == marketData[key]
                rec == dataWithDefaults[key]
            IN  q.kind = "object" =>
                    /\ (q.ltp.t # "number" /\ q.close.t # "number") =>
                           /\ IsZero(rec.ltp) /\ IsZero(rec.close)
                           /\ IsZero(rec.change)
                           /\ rec.trading_signal = HOLD
                    /\ \A f \in Fields : ~WellFormed(q[f]) => IsZero(rec[f])

\* C6 (as claimed): reconciliation never raises, and a key whose payload is no
\* object (null, undefined, a primitive) gets a full record with the six numeric
\* fields 0 and the symbol 'UNKNOWN'.
C6_NeverRaises ==
    /\ ~raised
    /\ DOMAIN marketData # {} =>
           /\ DOMAIN dataWithDefaults = DOMAIN marketData
           /\ \A key \in DOMAIN marketData :
                  marketData[key].kind # "object" =>
                      /\ \A f \in Fields : IsZero(dataWithDefaults[key][f])
                      /\ dataWithDefaults[key].symbol = UNKNOWN

-----------------------------------------------------------------------------
(* Claims about the dashboard (Spec) *)

\* C7 (as claimed): the reconciled mapping has exactly the keys of the most
\* recently accepted snapshot, also when that snapshot is the empty mapping.
C7_KeysOfLatestSnapshot ==
    DOMAIN dataWithDefaults = DOMAIN marketData

\* C8 (as claimed): from the state after mount, connect_error leads to
\* ServerIssueRetrying, reconnect_attempt then to Reconnecting with the message
\* 'Attempting to reconnect to server...', reconnect_exhausted then to
\* ServerIssueFailed, the retry button shown in all three.
C8_SequenceAsClaimed ==
    /\ hist = <<"connect_error">> =>
           TrackerState = "ServerIssueRetrying" /\ RetryShown
    /\ hist = <<"connect_error", "reconnect_attempt">> =>
           /\ TrackerState = "Reconnecting"
           /\ Message = "Attempting to reconnect to server..."
           /\ RetryShown
    /\ hist = <<"connect_error", "reconnect_attempt", "reconnect_exhausted">> =>
           TrackerState = "ServerIssueFailed" /\ RetryShown

\* C8 (amended): from the state after mount, connect_error leads to
\* ServerIssueRetrying, reconnect_attempt leaves it ServerIssueRetrying (message
\* 'Unable to connect ... Retrying...'), reconnect_exhausted leads to
\* ServerIssueFailed, the retry button shown in all three.
C8_SequencePreservesServerIssue ==
    /\ hist = <<"connect_error">> =>
           TrackerState = "ServerIssueRetrying" /\ RetryShown
    /\ hist = <<"connect_error", "reconnect_attempt">> =>
           /\ TrackerState = "ServerIssueRetrying"
           /\ Message = "Unable to connect to the server. It might be offline or experiencing issues. Retrying..."
           /\ RetryShown
    /\ hist = <<"connect_error", "reconnect_attempt", "reconnect_exhausted">> =>
           /\ TrackerState = "ServerIssueFailed"
           /\ Message = "Failed to connect to the server. It appears to be offline or experiencing issues. Please try again later."
           /\ RetryShown

C8_Witness ==
    /\ hist = <<"connect_error", "reconnect_attempt", "reconnect_exhausted">>
    /\ TrackerState = "ServerIssueFailed"

\* C9: a manual retry in any reachable ServerIssueFailed state leads to
\* Reconnecting: reconnecting set, modal shown, server-issue flag cleared.
C9_RetryFromFailed ==
    [][(TrackerState = "ServerIssueFailed" /\ HandleManualReconnect) =>
           /\ TrackerState' = "Reconnecting"
           /\ isAttemptingReconnect'
           /\ showConnectionModal'
           /\ ~serverIssueDetected']_vars

C9_Witness ==
    /\ hist = <<"connect_error", "reconnect_exhausted", "user_retry">>
    /\ TrackerState = "Reconnecting"
    /\ socket.active

\* C10 (as claimed): a manual retry in any state that shows the retry button
\* leads to Reconnecting with the server-issue flag cleared and a connection
\* attempt under way.
C10_RetryFromAnyShownState ==
    [][(RetryShown /\ HandleManualReconnect) =>
           /\ TrackerState' = "Reconnecting"
           /\ ~serverIssueDetected'
           /\ socket'.active /\ ~socket'.connected]_vars

-----------------------------------------------------------------------------
(* Claims about the connection tracker (Spec) *)

\* C11 (as claimed): from mount until the first channel event, fetch result or
\* retry, the message displayed is 'Connecting to server...' and the retry
\* button is not shown.
C11_InitialConnecting ==
    (lifecycle = "mounted" /\ hist = <<>>) =>
        /\ ModalRendered
        /\ Message = "Connecting to server..."
        /\ ~RetryShown

\* C12 (as claimed): in every reachable state the modal is shown iff the
\* tracker is not connected.
C12_ModalIffNotConnected ==
    showConnectionModal = ~isConnected

\* C13: a valid snapshot arriving on the channel leads to Connected from
\* whatever state it arrives in: connected, not reconnecting, modal hidden, and
\* the snapshot is the current market data.
C13_DataReceivedConnects ==
    [][\A p \in AppPayloads :
           (ValidPayload(p) /\ OnMarketData(p)) =>
               /\ TrackerState' = "Connected"
               /\ isConnected'
               /\ ~isAttemptingReconnect'
               /\ ~showConnectionModal'
               /\ marketData' = p.data]_vars

C13_Witness ==
    /\ hist = <<"channel_opened", "fetch_failure", "data_received">>
    /\ TrackerState = "Connected"
    /\ ~showConnectionModal
    /\ marketData # EmptyMapping

\* C14: a close with reason 'io client disconnect' leads to Disconnected
\* (connected, reconnecting and server-issue all false), a close with reason
\* 'transport error' or 'ping timeout' to ServerIssueRetrying (not connected,
\* reconnecting, server-issue); the modal is shown in both cases.
C14_CloseClassified ==
    [][/\ (Unmount /\ socket.connected) =>
              /\ TrackerState' = "Disconnected"
              /\ ~isConnected' /\ ~isAttemptingReconnect' /\ ~serverIssueDetected'
              /\ showConnectionModal'
       /\ (OnDisconnect("transport error") \/ OnDisconnect("ping timeout")) =>
              /\ TrackerState' = "ServerIssueRetrying"
              /\ ~isConnected' /\ isAttemptingReconnect' /\ serverIssueDetected'
              /\ showConnectionModal']_vars

C14_Witness ==
    /\ hist = <<"channel_opened", "data_received", "channel_closed">>
    /\ TrackerState = "ServerIssueRetrying"
    /\ showConnectionModal

\* C15: a close with any reason that is neither client-initiated nor a
\* transport failure leads to Reconnecting (not connected, reconnecting,
\* server-issue false, message 'Attempting to reconnect to server...'),
\* whatever preceded the close.
C15_OtherCloseReconnecting ==
    [][\A reason \in ServerReasons \ {"transport error", "ping timeout"} :
           OnDisconnect(reason) =>
               /\ TrackerState' = "Reconnecting"
               /\ ~isConnected' /\ isAttemptingReconnect' /\ ~serverIssueDetected'
               /\ Message' = "Attempting to reconnect to server..."]_vars

C15_Witness ==
    /\ hist = <<"connect_error", "channel_opened", "channel_closed">>
    /\ TrackerState = "Reconnecting"
    /\ Message = "Attempting to reconnect to server..."

\* C16 (as claimed): reconnect_attempt leads to Reconnecting from every state
\* other than ServerIssueRetrying (Connected, Disconnected and
\* ServerIssueFailed included) and leaves ServerIssueRetrying as it is.
C16_ReconnectAttempt ==
    [][OnReconnectAttempt =>
           TrackerState' = IF TrackerState = "ServerIssueRetrying"
                           THEN "ServerIssueRetrying" ELSE "Reconnecting"]_vars

\* C17 (as claimed): reconnect_exhausted leads to ServerIssueFailed from every
\* state in which it can occur: not connected, not reconnecting, server-issue
\* set, modal shown, message 'Failed to connect to the server...', also when a
\* fallback fetch succeeded earlier.
C17_ExhaustedFails ==
    [][OnReconnectFailed =>
           /\ TrackerState' = "ServerIssueFailed"
           /\ ~isConnected' /\ ~isAttemptingReconnect' /\ serverIssueDetected'
           /\ showConnectionModal'
           /\ Message' = "Failed to connect to the server. It appears to be offline or experiencing issues. Please try again later."]_vars

\* C18: a data event whose payload is missing or has no data member changes
\* nothing: market data, lastUpdate, the three flags, the modal and the table
\* stay as they are and no error is raised.
C18_InvalidPayloadNoOp ==
    [][(OnMarketData(NoPayload) \/ OnMarketData(NoDataMember)) =>
           /\ UNCHANGED <<marketData, lastUpdate, appFlags, tableVars>>
           /\ ~raised']_vars

C18_Witness ==
    /\ hist = <<"channel_opened", "data_received", "data_invalid">>
    /\ marketData # EmptyMapping
    /\ lastUpdate = 1
    /\ TrackerState = "Connected"

\* C19 (as claimed): a failed fallback fetch never raises, leaves the snapshot
\* unchanged, and leaves the tracker in the state connect_error produces: not
\* connected, modal shown, reconnecting and server-issue set.
C19_FailureAsConnectError ==
    [][\A kind \in FetchFailures :
           FetchResolved(FetchFailure(kind)) =>
               /\ ~raised'
               /\ marketData' = marketData
               /\ appFlags' = <<FALSE, TRUE, TRUE, TRUE>>]_vars

\* C19 (amended): a failed fallback fetch never raises, leaves the snapshot,
\* lastUpdate and the table unchanged, and leaves the tracker not connected
\* with the modal shown; the reconnecting and server-issue flags keep their
\* values.
C19_FailureDisconnects ==
    [][\A kind \in FetchFailures :
           FetchResolved(FetchFailure(kind)) =>
               /\ ~raised'
               /\ UNCHANGED <<marketData, lastUpdate, tableVars>>
               /\ ~isConnected'
               /\ showConnectionModal'
               /\ UNCHANGED <<isAttemptingReconnect, serverIssueDetected>>]_vars

C19_Witness ==
    /\ hist = <<"channel_opened", "data_received", "fetch_failure">>
    /\ marketData # EmptyMapping
    /\ TrackerState = "Disconnected"
    /\ showConnectionModal

\* C20 (as claimed): whenever the socket is down and no automatic reconnection
\* is under way (none was started, or the attempts are exhausted), the modal
\* with the retry button is shown, also after a fallback fetch succeeded while
\* the socket was down.
C20_RetryAlwaysOffered ==
    (lifecycle = "mounted" /\ ~raised /\ ~socket.connected /\ ~socket.active) =>
        RetryShown

\* C21: unmounting disconnects the socket and detaches its listeners, whatever
\* the connection was doing, and after unmount no socket event changes the
\* connection flags or the snapshot.
C21_Teardown ==
    [][/\ lifecycle' = "unmounted" =>
              ~socket'.connected /\ ~socket'.active /\ ~socket'.listening
       /\ lifecycle = "unmounted" =>
              UNCHANGED <<appFlags, marketData, lastUpdate, tableVars>>]_vars

C21_Witness ==
    /\ lifecycle = "unmounted"
    /\ hist = <<"channel_opened", "data_received">>
    /\ marketData # EmptyMapping
    /\ ~socket.connected /\ ~socket.listening
    /\ TrackerState = "Disconnected"

\* C23: the current snapshot is the payload of the valid data event applied
\* last, whichever source it came from: a pushed snapshot and a successful
\* fetch each replace it, nothing else changes it, a push leaves a fetch in
\* flight, and the response of a fetch in flight replaces a snapshot pushed
\* meanwhile.
C23_LastWriteWins ==
    [][/\ \A p \in AppPayloads :
              (ValidPayload(p) /\ OnMarketData(p)) =>
                  marketData' = p.data /\ fetches' = fetches
       /\ \A md \in AppSnapshots :
              FetchResolved(FetchSuccess(md)) => marketData' = md
       /\ marketData' # marketData =>
              \/ \E p \in AppPayloads : ValidPayload(p) /\ OnMarketData(p)
              \/ \E md \in AppSnapshots : FetchResolved(FetchSuccess(md))]_vars

\* a fetched quote (ltp 100) has replaced a pushed one (ltp 103)
C23_Witness ==
    /\ hist = <<"channel_opened", "data_received", "fetch_success">>
    /\ socket.connected
    /\ "A" \in DOMAIN dataWithDefaults
    /\ marketData = [key \in {"A"} |-> AppQuote("A", 100)]
    /\ dataWithDefaults["A"].prev_ltp = Num(103)

\* C26 (as claimed): no reachable state has isConnected and
\* isAttemptingReconnect both true.
C26_NotConnectedAndReconnecting ==
    ~(isConnected /\ isAttemptingReconnect)

\* C29: whenever isConnected is false the modal is shown and it contains the
\* retry button.
C29_NotConnectedIsVisible ==
    ~isConnected => (showConnectionModal /\ ModalRendered /\ RetryShown)

C29_Witness ==
    /\ hist = <<"fetch_success", "connect_error">>
    /\ ~isConnected
    /\ RetryShown

-----------------------------------------------------------------------------
(* Further claims about the reconciler (SpecRecon, SpecSignal) *)

\* the stored fields of a reconciled record, as the input of the derivations
StoredItem(rec) ==
    Quote(rec.symbol, rec.ltp, rec.open, rec.high, rec.low, rec.close,
          rec.volume, rec.timestamp)
\* the same number (NaN taken as equal to NaN)
SameNumber(a, b) == a.k = b.k /\ (a.k = "fin" => Same(a, b))

\* C24 (as claimed): in every reconciled record change is the record's own ltp
\* minus its own close and trading_signal is the signal of its own ltp, close,
\* high and low, whatever the raw input was.
C24_RecordConsistent ==
    \A key \in DOMAIN dataWithDefaults :
        LET rec == dataWithDefaults[key]
        IN  /\ SameNumber(rec.change, Change(StoredItem(rec)))
            /\ rec.trading_signal = TradingSignal(StoredItem(rec))

\* C25 (as claimed): a record whose close is 0 has the signal HOLD, whatever
\* its ltp, high and low.
C25_ZeroCloseHolds ==
    (DOMAIN marketData # {} /\ ~raised) =>
        \A key \in DOMAIN marketData :
            marketData[key].close = Num(0) =>
                dataWithDefaults[key].trading_signal = HOLD

\* C27 (as claimed): the result for a snapshot depends only on that snapshot
\* and the one delivered immediately before it: it is the reconciliation
\* against the records of the preceding snapshot alone, so a symbol absent from
\* the preceding snapshot (the empty one included) has an absent baseline.
C27_BaselineOneStepBack ==
    [][Reconciled =>
           dataWithDefaults' =
               ProcessedData(marketData', ProcessedData(marketData, EmptyMapping))]_vars

-----------------------------------------------------------------------------
(* Claim about the retry loop (SpecRetry) *)

\* the retry loop is over: the socket is down and the manager has given up
GivenUp == socket.exists /\ ~socket.connected /\ ~socket.active

\* C28: when every connection attempt fails, the retry loop makes at most 5
\* reconnect attempts and then ends with reconnect_exhausted; as long as no
\* snapshot was ever accepted the tracker is then ServerIssueFailed; no
\* further attempt is made by itself, and the state stays ServerIssueFailed
\* until a manual retry or an accepted snapshot.
C28_RetryLoopEnds ==
    /\ [](socket.attempts <= reconnectionAttempts)
    /\ [][RetryExhausted => socket.attempts = reconnectionAttempts]_vars
    /\ (lifecycle = "mounted" /\ socket.active) ~> ~socket.active
    /\ []((lifecycle = "mounted" /\ GivenUp /\ lastUpdate = 0) =>
               TrackerState = "ServerIssueFailed")
    /\ [][(lifecycle = "mounted" /\ GivenUp /\ TrackerState = "ServerIssueFailed") =>
               \/ socket' = socket /\ TrackerState' = "ServerIssueFailed"
               \/ HandleManualReconnect
               \/ \E r \in RetryResponses : r.kind = "success" /\ FetchResolved(r)
               \/ Unmount]_vars

C28_Witness ==
    /\ lifecycle = "mounted"
    /\ GivenUp
    /\ hist = Overflow
    /\ lastUpdate = 0
    /\ fetches = 0
    /\ TrackerState = "ServerIssueFailed"
    /\ Message = "Failed to connect to the server. It appears to be offline or experiencing issues. Please try again later."
    /\ RetryShown

-----------------------------------------------------------------------------
(* Claim about the filtered view (SpecFilter) *)

\* the keys of the records the view is to contain
Selected ==
    { k \in DOMAIN dataWithDefaults :
        LET rec == dataWithDefaults[k]
        IN  /\ rec.symbol # NIFTY50
            /\ filterSignal = ALL \/ rec.trading_signal = filterSignal
            /\ Includes(ToLowerCase(rec.symbol.s), ToLowerCase(searchTerm.s)) }

\* C22: the filtered view contains exactly the reconciled records whose symbol
\* is not 'NIFTY50-INDEX', whose signal is the selected one (any for 'all') and
\* whose symbol contains the search term without regard to case, each once, in
\* ascending order of symbol; the index record is never in it.
C22_FilteredView ==
    LET view == FilteredData
    IN  /\ Len(view) = Cardinality(Selected)
        /\ { view[i] : i \in 1..Len(view) } = { dataWithDefaults[k] : k \in Selected }
        /\ \A i \in 1..Len(view) : view[i].symbol # NIFTY50
        /\ \A i \in 1..(Len(view) - 1) :
               LocaleCompare(view[i].symbol.s, view[i + 1].symbol.s) < 0

\* 'I' typed with all three symbols reconciled: infy, then ITC
C22_Witness ==
    /\ DOMAIN dataWithDefaults = FilterKeys
    /\ filterSignal = BUY
    /\ searchTerm = Str(<<73>>)
    /\ Len(FilteredData) = 2
    /\ FilteredData[1].symbol = FilterSymbol("infy")
    /\ FilteredData[2].symbol = FilterSymbol("ITC")

=============================================================================
